---- MODULE Spec2Model ----
(***************************************************************************)
(* Model of node-source-map-support: the position resolvers of             *)
(* source_map.js (BasicSourceMapConsumer, IndexedSourceMapConsumer,        *)
(* binarySearch, ArraySet) and the stack-trace rewriting of index.js       *)
(* (getSourceMap, getSourceMapPosition, frameToString, getMappedString,    *)
(* the Error.prepareStackTrace installer).                                 *)
(*                                                                         *)
(* JavaScript values are tagged records, so that the coercions the code    *)
(* relies on (x || null, x < 1, undefined + 1, `${x}`) are computed as the *)
(* language computes them.                                                 *)
(***************************************************************************)
EXTENDS Integers, Sequences, FiniteSets, TLC

VARIABLES
    document,   \* the map document handed to the SourceMapConsumer factory
    consumer,   \* the resolver built from it: not built yet, failed, or the object
    args,       \* the argument object of the last originalPositionFor call
    result,     \* the completion of the last operation: a return value or a thrown error
    files,      \* the file system readFileSync sees: path -> text
    cache,      \* index.js `cache`: pathname -> resolver | null
    reads,      \* the number of readFileSync calls made so far
    allocs,     \* the number of resolvers constructed so far (object identities)
    frame,      \* the call frame handed to the last rendering
    hook,       \* Error.prepareStackTrace: absent, or present with a value
    restores,   \* the restore functions returned so far, each with its captured value
    haystack,   \* the sorted array handed to binarySearch
    arraySet    \* an ArraySet under construction

resolverVars == <<document, consumer, args>>

traceVars == <<files, cache, reads, allocs, frame>>

hookVars == <<hook, restores>>

libVars == <<haystack, arraySet>>

vars == <<resolverVars, result, traceVars, hookVars, libVars>>

-----------------------------------------------------------------------------
(* JavaScript values *)

Null == [t |-> "null"]
Undefined == [t |-> "undefined"]
NaN == [t |-> "NaN"]
Num(n) == [t |-> "num", v |-> n]
Str(s) == [t |-> "str", v |-> s]

IsNum(x) == x.t = "num"

\* ToBoolean
Truthy(x) ==
    CASE x.t = "num" -> x.v # 0
      [] x.t = "str" -> x.v # ""
      [] x.t \in {"null", "undefined", "NaN"} -> FALSE
      [] OTHER -> TRUE

\* a || b
JsOr(a, b) == IF Truthy(a) THEN a ELSE b

\* ToNumber on the primitives the code meets
ToNumber(x) ==
    CASE x.t = "num" -> x
      [] x.t = "null" -> Num(0)
      [] OTHER -> NaN

\* a < b
JsLt(a, b) ==
    LET x == ToNumber(a)
        y == ToNumber(b)
    IN  IsNum(x) /\ IsNum(y) /\ x.v < y.v

\* a - b, a + b on numbers
JsSub(a, b) ==
    LET x == ToNumber(a)
        y == ToNumber(b)
    IN  IF IsNum(x) /\ IsNum(y) THEN Num(x.v - y.v) ELSE NaN

JsAdd(a, b) ==
    LET x == ToNumber(a)
        y == ToNumber(b)
    IN  IF IsNum(x) /\ IsNum(y) THEN Num(x.v + y.v) ELSE NaN

\* a === b
StrictEq(a, b) == a.t # "NaN" /\ a = b

\* `${x}`
ToStr(x) ==
    CASE x.t = "num" -> ToString(x.v)
      [] x.t = "str" -> x.v
      [] x.t = "null" -> "null"
      [] x.t = "undefined" -> "undefined"
      [] OTHER -> "NaN"

\* the conversion of a JS number to a wasm i32 argument
ToInt32(x) == IF IsNum(x) THEN x.v ELSE 0

\* o.k of a plain object: undefined when the property is absent
Get(o, k) == IF k \in DOMAIN o THEN o[k] ELSE Undefined

\* completions
Return(v) == [ok |-> TRUE, val |-> v]
Throw(e) == [ok |-> FALSE, err |-> e]

-----------------------------------------------------------------------------
(* source_map.js: constants *)

GREATEST_LOWER_BOUND == 1
LEAST_UPPER_BOUND == 2


\* the comparators the code hands to binarySearch, by name:
\*   "section": the arrow function of IndexedSourceMapConsumer.originalPositionFor
\*   "number":  (a, b) => a - b
Compare(aCompare, aNeedle, element) ==
    IF aCompare = "section"
    THEN LET cmp == JsSub(Get(aNeedle, "generatedLine"), element.generatedOffset.generatedLine)
         IN  IF Truthy(cmp)
             THEN cmp
             ELSE JsSub(Get(aNeedle, "generatedColumn"), element.generatedOffset.generatedColumn)
    ELSE JsSub(aNeedle, element)

\* JS indices are 0-based: aHaystack[i] is the TLA+ element i + 1
RECURSIVE recursiveSearch(_, _, _, _, _, _)
recursiveSearch(aLow, aHigh, aNeedle, aHaystack, aCompare, aBias) ==
    LET mid == ((aHigh - aLow) \div 2) + aLow
        cmp == Compare(aCompare, aNeedle, aHaystack[mid + 1])
    IN  IF StrictEq(cmp, Num(0))
        THEN mid
        ELSE IF JsLt(Num(0), cmp)
        THEN IF aHigh - mid > 1
             THEN recursiveSearch(mid, aHigh, aNeedle, aHaystack, aCompare, aBias)
             ELSE IF aBias = LEAST_UPPER_BOUND
             THEN (IF aHigh < Len(aHaystack) THEN aHigh ELSE -1)
             ELSE mid
        ELSE IF mid - aLow > 1
             THEN recursiveSearch(aLow, mid, aNeedle, aHaystack, aCompare, aBias)
             ELSE IF aBias = LEAST_UPPER_BOUND
             THEN mid
             ELSE (IF aLow < 0 THEN -1 ELSE aLow)

\* a search that returns the element it found, without stepping back
smallestEqual_stay(index, aHaystack, aCompare) == index

\* the trailing loop of binarySearch: step back while the earlier neighbour compares equal
RECURSIVE smallestEqual(_, _, _)
smallestEqual(index, aHaystack, aCompare) ==
    IF index - 1 >= 0
       /\ StrictEq(Compare(aCompare, aHaystack[index + 1], aHaystack[index]), Num(0))
    THEN smallestEqual(index - 1, aHaystack, aCompare)
    ELSE index

\* a search that ignores the bias it is given
binarySearch_lowerOnly(aNeedle, aHaystack, aCompare, aBias) ==
    IF Len(aHaystack) = 0
    THEN -1
    ELSE LET index == recursiveSearch(-1, Len(aHaystack), aNeedle, aHaystack, aCompare,
                                      GREATEST_LOWER_BOUND)
         IN  IF index < 0 THEN -1 ELSE smallestEqual(index, aHaystack, aCompare)

\* aBias is a JS value (undefined when the caller passes none)
binarySearch(aNeedle, aHaystack, aCompare, aBias) ==
    IF Len(aHaystack) = 0
    THEN -1
    ELSE LET bias == JsOr(aBias, Num(GREATEST_LOWER_BOUND))
             index == recursiveSearch(-1, Len(aHaystack), aNeedle, aHaystack, aCompare, bias.v)
         IN  IF index < 0 THEN -1 ELSE smallestEqual(index, aHaystack, aCompare)

-----------------------------------------------------------------------------
(* source_map.js: Mapping and the wasm callback *)

Mapping ==
    [generatedLine |-> Num(0), generatedColumn |-> Num(0), lastGeneratedColumn |-> Null,
     source |-> Null, originalLine |-> Null, originalColumn |-> Null, name |-> Null]

\* raw is the argument list of the callback, in the decoder's coordinates
mapping_callback(raw) ==
    LET m1 == [Mapping EXCEPT !.generatedLine = Num(raw.generatedLine + 1),
                              !.generatedColumn = Num(raw.generatedColumn)]
        m2 == IF raw.hasLastGeneratedColumn
              THEN [m1 EXCEPT !.lastGeneratedColumn = Num(raw.lastGeneratedColumn - 1)]
              ELSE m1
        m3 == IF raw.hasOriginal
              THEN [m2 EXCEPT !.source = Num(raw.source),
                              !.originalLine = Num(raw.originalLine + 1),
                              !.originalColumn = Num(raw.originalColumn)]
              ELSE m2
    IN  IF raw.hasOriginal /\ raw.hasName
        THEN [m3 EXCEPT !.name = Num(raw.name)]
        ELSE m3

-----------------------------------------------------------------------------
(* source_map.js: ArraySet *)

ArraySet_new == [_array |-> <<>>, _set |-> <<>>]

ArraySet_has(self, aStr) == aStr \in DOMAIN self._set

\* an add that records the new index also for a string already in the set
ArraySet_add_overwrite(self, aStr, aAllowDuplicates) ==
    [_array |-> IF ~ArraySet_has(self, aStr) \/ aAllowDuplicates
                THEN Append(self._array, aStr)
                ELSE self._array,
     _set |-> [x \in DOMAIN self._set \cup {aStr} |->
                  IF x = aStr THEN Len(self._array) ELSE self._set[x]]]

ArraySet_add(self, aStr, aAllowDuplicates) ==
    LET isDuplicate == ArraySet_has(self, aStr)
        idx == Len(self._array)
        arr == IF ~isDuplicate \/ aAllowDuplicates
               THEN Append(self._array, aStr)
               ELSE self._array
        set == IF ~isDuplicate
               THEN [x \in DOMAIN self._set \cup {aStr} |->
                        IF x = aStr THEN idx ELSE self._set[x]]
               ELSE self._set
    IN  [_array |-> arr, _set |-> set]

RECURSIVE ArraySet_fromArrayFrom(_, _, _, _)
ArraySet_fromArrayFrom(set, aArray, i, aAllowDuplicates) ==
    IF i > Len(aArray)
    THEN set
    ELSE ArraySet_fromArrayFrom(ArraySet_add(set, aArray[i], aAllowDuplicates),
                                aArray, i + 1, aAllowDuplicates)

ArraySet_fromArray(aArray, aAllowDuplicates) ==
    ArraySet_fromArrayFrom(ArraySet_new, aArray, 1, aAllowDuplicates)

ArraySet_size(self) == Cardinality(DOMAIN self._set)

ArraySet_indexOf(self, aStr) ==
    IF ArraySet_has(self, aStr) /\ self._set[aStr] >= 0
    THEN Return(self._set[aStr])
    ELSE Throw("\"" \o aStr \o "\" is not in the set.")

\* aIdx is a JS value
ArraySet_at(self, aIdx) ==
    IF IsNum(aIdx) /\ aIdx.v >= 0 /\ aIdx.v < Len(self._array)
    THEN Return(Str(self._array[aIdx.v + 1]))
    ELSE Throw("No element indexed by " \o ToStr(aIdx))

ArraySet_toArray(self) == self._array

-----------------------------------------------------------------------------
(* The decoder (mappings.wasm).  An encoded mapping string is represented  *)
(* by what it decodes to: an error code (0: none) and the table of raw     *)
(* records, sorted by generated position, in the decoder's coordinates     *)
(* (0-based lines).                                                        *)

MaxRecords == 2

RawPositions == {<<0, 1>>, <<0, 3>>, <<1, 1>>, <<1, 3>>}

NoOriginal ==
    [hasOriginal |-> FALSE, source |-> 0, originalLine |-> 0, originalColumn |-> 0,
     hasName |-> FALSE, name |-> 0]

Original(source, line, column, hasName, name) ==
    [hasOriginal |-> TRUE, source |-> source, originalLine |-> line,
     originalColumn |-> column, hasName |-> hasName, name |-> name]

OriginalSides ==
    { NoOriginal,
      Original(0, 2, 2, TRUE, 0),
      Original(1, 3, 0, TRUE, 1),
      Original(1, 2, 1, FALSE, 0) }

RawRecord(pos, side) ==
    [generatedLine |-> pos[1], generatedColumn |-> pos[2],
     hasLastGeneratedColumn |-> FALSE, lastGeneratedColumn |-> 0,
     hasOriginal |-> side.hasOriginal, source |-> side.source,
     originalLine |-> side.originalLine, originalColumn |-> side.originalColumn,
     hasName |-> side.hasName, name |-> side.name]

RawRecords == {RawRecord(pos, side) : pos \in RawPositions, side \in OriginalSides}

PosLess(a, b) ==
    \/ a.generatedLine < b.generatedLine
    \/ a.generatedLine = b.generatedLine /\ a.generatedColumn < b.generatedColumn

PosLeq(a, b) ==
    \/ PosLess(a, b)
    \/ a.generatedLine = b.generatedLine /\ a.generatedColumn = b.generatedColumn

Tables ==
    {t \in UNION {[1..n -> RawRecords] : n \in 0..MaxRecords} :
        \A i \in 1..(Len(t) - 1) : PosLess(t[i], t[i + 1])}

ErrorCodes == 1..5

Payloads ==
    {[error |-> 0, table |-> t] : t \in Tables}
        \cup {[error |-> e, table |-> <<>>] : e \in ErrorCodes}

\* parse_mappings: the handle of the decoded table, 0 on failure
parse_mappings(payload) == IF payload.error = 0 THEN 8 ELSE 0

get_last_error(payload) == payload.error

\* original_location_for: the record the decoder reports to the callback for the
\* needle (0-based line, column) under the bias, or none (the empty set)
original_location_for(table, line, column, bias) ==
    LET needle == [generatedLine |-> line, generatedColumn |-> column]
        below == {i \in 1..Len(table) : PosLeq(table[i], needle)}
        above == {i \in 1..Len(table) : PosLeq(needle, table[i])}
        pick == IF bias = LEAST_UPPER_BOUND THEN above ELSE below
        best == IF bias = LEAST_UPPER_BOUND
                THEN {i \in pick : \A j \in pick : PosLeq(table[i], table[j])}
                ELSE {i \in pick : \A j \in pick : PosLeq(table[j], table[i])}
    IN  {table[i] : i \in {i \in best : \A j \in best : i <= j}}

-----------------------------------------------------------------------------
(* path *)

AbsolutePaths == {"/src", "/src/a.js", "/src/b.js"}

\* path.resolve(from, to) for an absolute `from`
PathResolve(from, to) == IF to \in AbsolutePaths THEN to ELSE from \o "/" \o to

-----------------------------------------------------------------------------
(* source_map.js: BasicSourceMapConsumer *)

\* new BasicSourceMapConsumer(sourceMap, sourceMapURL)
BasicSourceMapConsumer(sourceMap, sourceMapURL) ==
    IF "sources" \notin DOMAIN sourceMap
    THEN Throw("TypeError: Cannot read properties of undefined (reading 'map')")
    ELSE
    LET mappings == Get(sourceMap, "mappings")
        sources == sourceMap.sources
        names == IF "names" \in DOMAIN sourceMap THEN sourceMap.names ELSE <<>>
        sourceRoot == JsOr(Get(sourceMap, "sourceRoot"), Null)
        sourcesContent == JsOr(Get(sourceMap, "sourcesConent"), Null)
        file == JsOr(Get(sourceMap, "file"), Null)
        _sources == ArraySet_fromArray(sources, TRUE)
        absolute == [i \in 1..Len(ArraySet_toArray(_sources)) |->
                        IF Truthy(sourceRoot)
                        THEN PathResolve(sourceRoot.v, ArraySet_toArray(_sources)[i])
                        ELSE ArraySet_toArray(_sources)[i]]
    IN  Return([kind |-> "basic",
                _names |-> ArraySet_fromArray(names, TRUE),
                _sources |-> _sources,
                _absoluteSources |-> ArraySet_fromArray(absolute, TRUE),
                sourceRoot |-> sourceRoot,
                sourcesContent |-> sourcesContent,
                _mappings |-> mappings,
                file |-> file,
                _mappingsPtr |-> 0])

ParseErrorMessage(error) ==
    "Error parsing mappings (code " \o ToString(error) \o "): " \o
    (CASE error = 1 -> "the mappings contained a negative line, column, source index, or name index"
       [] error = 2 -> "the mappings contained a number larger than 2**32"
       [] error = 3 -> "reached EOF while in the middle of parsing a VLQ"
       [] error = 4 -> "invalid base 64 character while parsing a VLQ"
       [] OTHER -> "unknown error code")

\* _parseMappings: the completion carries the consumer after the call
_parseMappings(self) ==
    LET mappingsPtr == parse_mappings(self._mappings)
    IN  IF mappingsPtr = 0
        THEN [ok |-> FALSE, err |-> ParseErrorMessage(get_last_error(self._mappings)),
              self |-> self]
        ELSE [ok |-> TRUE, val |-> mappingsPtr,
              self |-> [self EXCEPT !._mappingsPtr = mappingsPtr]]

_getMappingsPtr(self) ==
    IF self._mappingsPtr = 0
    THEN _parseMappings(self)
    ELSE [ok |-> TRUE, val |-> self._mappingsPtr, self |-> self]

\* a resolver without the row-boundary guard
AcceptsMapping_anyLine(mapping, needle) == TRUE

\* the row-boundary guard of originalPositionFor
AcceptsMapping(mapping, needle) == StrictEq(mapping.generatedLine, needle.generatedLine)

\* the index handed to the source and name tables
SourceIndex(mapping) == JsOr(mapping.source, Null)

NameIndex(mapping) == JsOr(mapping.name, Null)

NullPosition == [source |-> Null, line |-> Null, column |-> Null, name |-> Null]

\* the part of originalPositionFor after the decoder has answered; `found` is the
\* set of mappings the callback received (empty or one)
ResolveMapping(self, needle, found) ==
    IF found # {} /\ AcceptsMapping(CHOOSE m \in found : TRUE, needle)
    THEN LET mapping == CHOOSE m \in found : TRUE
             source == SourceIndex(mapping)
             name == NameIndex(mapping)
             sourceAt == IF source # Null
                         THEN ArraySet_at(self._absoluteSources, source)
                         ELSE Return(Null)
             nameAt == IF name # Null THEN ArraySet_at(self._names, name) ELSE Return(Null)
         IN  IF ~sourceAt.ok
             THEN Throw(sourceAt.err)
             ELSE IF ~nameAt.ok
             THEN Throw(nameAt.err)
             ELSE Return([source |-> sourceAt.val,
                          line |-> IF IsNum(mapping.originalLine)
                                   THEN mapping.originalLine ELSE Null,
                          column |-> IF IsNum(mapping.originalColumn)
                                     THEN mapping.originalColumn ELSE Null,
                          name |-> nameAt.val])
    ELSE Return(NullPosition)

\* originalPositionFor once the table is at hand: ptr is the completion of
\* _getMappingsPtr, carrying the consumer after it
Basic_originalPositionFor_ptr(a, needle, ptr) ==
    IF ~ptr.ok
    THEN ptr
    ELSE ResolveMapping(
             ptr.self, needle,
             {mapping_callback(r) :
                 r \in original_location_for(
                           ptr.self._mappings.table,
                           ToInt32(JsSub(needle.generatedLine, Num(1))),
                           ToInt32(needle.generatedColumn),
                           ToInt32(JsOr(Get(a, "bias"), Num(GREATEST_LOWER_BOUND))))})
             @@ [self |-> ptr.self]

\* originalPositionFor without the validation of the coordinates
Basic_originalPositionFor_needle_unchecked(self, a, needle) ==
    Basic_originalPositionFor_ptr(a, needle, _getMappingsPtr(self))

\* originalPositionFor after the needle is built
Basic_originalPositionFor_needle(self, a, needle) ==
    IF JsLt(needle.generatedLine, Num(1))
    THEN [ok |-> FALSE, err |-> "Line numbers must be >= 1", self |-> self]
    ELSE IF JsLt(needle.generatedColumn, Num(0))
    THEN [ok |-> FALSE, err |-> "Column numbers must be >= 0", self |-> self]
    ELSE Basic_originalPositionFor_ptr(a, needle, _getMappingsPtr(self))

\* BasicSourceMapConsumer.originalPositionFor(args); the completion carries the
\* consumer after the call (the lazily decoded table is kept)
Basic_originalPositionFor(self, a) ==
    Basic_originalPositionFor_needle(
        self, a, [generatedLine |-> Get(a, "line"), generatedColumn |-> Get(a, "column")])

-----------------------------------------------------------------------------
(* source_map.js: IndexedSourceMapConsumer and the SourceMapConsumer factory *)

\* The text of a map file is represented by what JSON.parse makes of it:
\* [xssi: whether it starts with a )]}' line, valid: whether the rest is JSON,
\*  doc: the parsed object]
StripXssi(text) == [text EXCEPT !.xssi = FALSE]

JSONParse(text) ==
    IF text.xssi \/ ~text.valid
    THEN Throw("SyntaxError: Unexpected token in JSON")
    ELSE Return(text.doc)

IsText(aSourceMap) == "xssi" \in DOMAIN aSourceMap

RECURSIVE SourceMapConsumer(_, _)
RECURSIVE MapSections(_, _, _, _, _)

\* the end of the arrow function of sections.map for section i: made is the
\* completion of new SourceMapConsumer(s.map, sourceMapURL)
MapSections_made(sections, i, done, sourceMapURL, made) ==
    IF ~made.ok
    THEN made
    ELSE MapSections(
             sections, i + 1, Get(sections[i], "offset"),
             Append(done,
                    [consumer |-> made.val,
                     generatedOffset |->
                         [generatedLine |-> JsAdd(Get(sections[i], "line"), Num(1)),
                          generatedColumn |-> JsAdd(Get(sections[i], "column"), Num(1))]]),
             sourceMapURL)

\* the arrow function of sections.map on section s, with the closure variable lastOffset
MapSections_section(sections, i, lastOffset, done, sourceMapURL, s) ==
    IF Truthy(Get(s, "url"))
    THEN Throw("Support for url field in sections not implemented.")
    ELSE IF lastOffset = Undefined
    THEN Throw("TypeError: Cannot read properties of undefined (reading 'line')")
    ELSE IF \/ JsLt(Get(s, "line"), Get(lastOffset, "line"))
            \/ /\ StrictEq(Get(s, "line"), Get(lastOffset, "line"))
               /\ JsLt(Get(s, "column"), Get(lastOffset, "column"))
    THEN Throw("Section offsets must be ordered and non-overlapping.")
    ELSE MapSections_made(sections, i, done, sourceMapURL,
                          SourceMapConsumer(s.map, sourceMapURL))

\* sections.map from section i on; done is the sections built so far
MapSections(sections, i, lastOffset, done, sourceMapURL) ==
    IF i > Len(sections)
    THEN Return(done)
    ELSE MapSections_section(sections, i, lastOffset, done, sourceMapURL, sections[i])

IndexedSourceMapConsumer_built(built) ==
    IF built.ok
    THEN Return([kind |-> "indexed", _sections |-> built.val])
    ELSE built

\* new IndexedSourceMapConsumer(sourceMap, sourceMapURL)
IndexedSourceMapConsumer(sourceMap, sourceMapURL) ==
    IndexedSourceMapConsumer_built(
        MapSections(sourceMap.sections, 1, [line |-> Num(-1), column |-> Num(0)],
                    <<>>, sourceMapURL))

\* the factory after the text, if any, is parsed
SourceMapConsumer_parsed(parsed, sourceMapURL) ==
    IF ~parsed.ok
    THEN parsed
    ELSE IF "sections" \in DOMAIN parsed.val
    THEN IndexedSourceMapConsumer(parsed.val, sourceMapURL)
    ELSE BasicSourceMapConsumer(parsed.val, sourceMapURL)

SourceMapConsumer(aSourceMap, sourceMapURL) ==
    SourceMapConsumer_parsed(
        IF IsText(aSourceMap) THEN JSONParse(StripXssi(aSourceMap)) ELSE Return(aSourceMap),
        sourceMapURL)

\* the coordinates IndexedSourceMapConsumer.originalPositionFor hands to the section
SectionArgs(section, needle, a) ==
    [line |-> JsSub(needle.generatedLine,
                    JsSub(section.generatedOffset.generatedLine, Num(1))),
     column |-> JsSub(needle.generatedColumn,
                      IF StrictEq(section.generatedOffset.generatedLine, needle.generatedLine)
                      THEN JsSub(section.generatedOffset.generatedColumn, Num(1))
                      ELSE Num(0)),
     bias |-> Get(a, "bias")]

RECURSIVE OriginalPositionFor(_, _)

\* the result of the section's answer r, with the delegation recorded
Indexed_originalPositionFor_result(self, sectionIndex, local, r) ==
    [r EXCEPT !.self = [self EXCEPT !._sections[sectionIndex + 1].consumer = r.self],
              !.via = <<[section |-> sectionIndex, args |-> local]>> \o r.via]

Indexed_originalPositionFor_local(self, sectionIndex, local) ==
    Indexed_originalPositionFor_result(
        self, sectionIndex, local,
        OriginalPositionFor(self._sections[sectionIndex + 1].consumer, local))

Indexed_originalPositionFor_index(self, a, needle, sectionIndex) ==
    IF sectionIndex < 0 \/ sectionIndex >= Len(self._sections)
    THEN [ok |-> TRUE, val |-> NullPosition, self |-> self, via |-> <<>>]
    ELSE Indexed_originalPositionFor_local(
             self, sectionIndex,
             SectionArgs(self._sections[sectionIndex + 1], needle, a))

Indexed_originalPositionFor_needle(self, a, needle) ==
    Indexed_originalPositionFor_index(
        self, a, needle, binarySearch(needle, self._sections, "section", Undefined))

\* IndexedSourceMapConsumer.originalPositionFor(args); `via` lists the delegations
\* made: the section index and the arguments it was called with
Indexed_originalPositionFor(self, a) ==
    Indexed_originalPositionFor_needle(
        self, a, [generatedLine |-> Get(a, "line"), generatedColumn |-> Get(a, "column")])

\* consumer.originalPositionFor(args), by the class of the consumer
OriginalPositionFor(self, a) ==
    IF self.kind = "indexed"
    THEN Indexed_originalPositionFor(self, a)
    ELSE Basic_originalPositionFor(self, a) @@ [via |-> <<>>]

-----------------------------------------------------------------------------
(* index.js: map discovery and cache *)

\* The text of a generated file is represented by the mapping-reference comments the
\* regular expression of getSourceMap matches in it, in order: each is the single-line
\* form (//# sourceMappingURL=ref, capture group 1) or the block form
\* (/*# sourceMappingURL=ref */, capture group 2).
LineComment(ref) == [form |-> "line", ref |-> ref]
BlockComment(ref) == [form |-> "block", ref |-> ref]

\* match[1] of a match of the regular expression
Group1(match) == IF match.form = "line" THEN Str(match.ref) ELSE Undefined

\* path.dirname over the paths of the model: every file lives in /g
PathDirname(p) == "/g"

\* the protocol prefix /^\w+:\/\/[^/]*/ finds in a directory: none of the model's
\* directories carries one
ProtocolOf(dir) == ""

\* supportRelativeURL(file, url); url is a JS value, the completion a path
supportRelativeURL(file, url) ==
    IF file = ""
    THEN Return(url.v)
    ELSE LET dir == PathDirname(file)
             protocol == ProtocolOf(dir)
         IN  IF url.t # "str"
             THEN Throw("TypeError [ERR_INVALID_ARG_TYPE]: The \"paths[1]\" argument must be of type string")
             ELSE Return(protocol \o PathResolve(dir, url.v))

\* readFile(pathname) on the file system fs
readFile(fs, pathname) ==
    IF pathname \in DOMAIN fs
    THEN Return(fs[pathname])
    ELSE Throw("ENOENT: no such file or directory, open '" \o pathname \o "'")

\* the module state getSourceMap works on
ModuleState == [cache |-> cache, reads |-> reads, allocs |-> allocs]

\* a cache that is never consulted
CacheHas_never(st, pathname) == FALSE

\* cache.has(pathname)
CacheHas(st, pathname) == pathname \in DOMAIN st.cache

CacheSet(st, pathname, value) ==
    [st EXCEPT !.cache = [q \in DOMAIN st.cache \cup {pathname} |->
                             IF q = pathname THEN value ELSE st.cache[q]]]

\* the resolver as the module holds it: `id` tells one allocated object from another
Allocated(st, made) == made @@ [id |-> st.allocs + 1]

\* the try block of getSourceMap after new SourceMapConsumer(...): the instance is
\* cached, then, neither resolver class having a `sources` property,
\* sourceMap.sources.forEach raises if the instance has a truthy sourcesContent
LoadSourceMap_made(st1, pathname, made) ==
    IF ~made.ok
    THEN [ok |-> FALSE, err |-> made.err, st |-> st1]
    ELSE IF Truthy(Get(made.val, "sourcesContent"))
    THEN [ok |-> FALSE,
          err |-> "TypeError: Cannot read properties of undefined (reading 'forEach')",
          st |-> CacheSet([st1 EXCEPT !.allocs = @ + 1], pathname, Allocated(st1, made.val))]
    ELSE [ok |-> TRUE, val |-> Allocated(st1, made.val),
          st |-> CacheSet([st1 EXCEPT !.allocs = @ + 1], pathname, Allocated(st1, made.val))]

\* the try block after the map file is read: text is the completion of readFile
LoadSourceMap_text(st1, pathname, sourceMappingURL, text) ==
    IF ~text.ok
    THEN [ok |-> FALSE, err |-> text.err, st |-> st1]
    ELSE LoadSourceMap_made(st1, pathname, SourceMapConsumer(text.val, sourceMappingURL))

\* the try block after the reference is resolved: r is the completion of
\* supportRelativeURL
LoadSourceMap_url(st, fs, pathname, r) ==
    IF ~r.ok
    THEN [ok |-> FALSE, err |-> r.err, st |-> st]
    ELSE LoadSourceMap_text([st EXCEPT !.reads = @ + 1], pathname, r.val, readFile(fs, r.val))

\* the body of the try block of getSourceMap once the text is at hand: the completion
\* carries the module state after it
LoadSourceMap(st, fs, pathname, source) ==
    IF Len(source.comments) = 0
    THEN [ok |-> TRUE, val |-> Null, st |-> CacheSet(st, pathname, Null)]
    ELSE LoadSourceMap_url(
             st, fs, pathname,
             supportRelativeURL(pathname, Group1(source.comments[Len(source.comments)])))

\* a catch clause that returns null and leaves the cache alone
getSourceMap_loaded_uncached(pathname, loaded) ==
    IF loaded.ok
    THEN [val |-> loaded.val, st |-> loaded.st]
    ELSE [val |-> Null, st |-> loaded.st]

\* the end of getSourceMap: the value of the try block, or the catch clause
getSourceMap_loaded(pathname, loaded) ==
    IF loaded.ok
    THEN [val |-> loaded.val, st |-> loaded.st]
    ELSE [val |-> Null, st |-> CacheSet(loaded.st, pathname, Null)]

\* getSourceMap with the text at hand or read: text is a completion
getSourceMap_text(st1, fs, pathname, text) ==
    getSourceMap_loaded(
        pathname,
        IF text.ok
        THEN LoadSourceMap(st1, fs, pathname, text.val)
        ELSE [ok |-> FALSE, err |-> text.err, st |-> st1])

\* getSourceMap(pathname, source); source is the text already at hand, or undefined.
\* The result carries the module state after the call; the function never raises.
getSourceMap(st, fs, pathname, source) ==
    IF CacheHas(st, pathname)
    THEN [val |-> st.cache[pathname], st |-> st]
    ELSE getSourceMap_text(
             IF source = Undefined THEN [st EXCEPT !.reads = @ + 1] ELSE st,
             fs, pathname,
             IF source = Undefined THEN readFile(fs, pathname) ELSE Return(source))

\* getSourceMapPosition after the resolver has answered: r is the completion of
\* originalPositionFor, carrying the resolver after the call
getSourceMapPosition_mapped(st, position, r) ==
    IF r.ok
    THEN [ok |-> TRUE, val |-> r.val, st |-> CacheSet(st, position.source.v, r.self)]
    ELSE [ok |-> FALSE, err |-> r.err, st |-> CacheSet(st, position.source.v, r.self)]

\* getSourceMapPosition after getSourceMap has returned got
getSourceMapPosition_got(position, got) ==
    IF got.val # Null
    THEN getSourceMapPosition_mapped(got.st, position, OriginalPositionFor(got.val, position))
    ELSE [ok |-> TRUE, val |-> position, st |-> got.st]

\* getSourceMapPosition(position); the completion carries the module state after it
getSourceMapPosition(st, fs, position) ==
    getSourceMapPosition_got(position, getSourceMap(st, fs, position.source.v, Undefined))

-----------------------------------------------------------------------------
(* index.js: frame rendering *)

\* String.prototype.startsWith and endsWith over the names of the model
StartsWith(a, b) == a = b \/ <<a, b>> \in {<<"Array.map", "Array">>, <<"Foo.bar", "Foo">>}

EndsWith(a, b) == a = b \/ <<a, b>> \in {<<"Array.map", ".map">>, <<"Foo.bar", ".bar">>}

\* The text frame.getEvalOrigin() returns is represented by its shape:
\*   [fn, file, line, column]  "eval at fn (file:line:column)"
\*   [fn, inner]               "eval at fn (inner)", inner not ending in :line:column
\*   [other]                   a text of neither shape
EvalOriginText(o) ==
    IF "file" \in DOMAIN o
    THEN "eval at " \o o.fn \o " (" \o o.file \o ":" \o ToString(o.line) \o ":"
             \o ToString(o.column) \o ")"
    ELSE IF "inner" \in DOMAIN o
    THEN "eval at " \o o.fn \o " (" \o o.inner \o ")"
    ELSE o.other

\* getEvalOrigin after the position of the origin is mapped: p is the completion of
\* getSourceMapPosition
getEvalOrigin_position(origin, p) ==
    IF ~p.ok
    THEN p
    ELSE [ok |-> TRUE,
          val |-> Str("eval at " \o origin.fn \o " (" \o ToStr(p.val.source)
                      \o ":" \o ToStr(p.val.line) \o ":"
                      \o ToStr(JsAdd(p.val.column, Num(1))) \o ")"),
          st |-> p.st]

\* getEvalOrigin(frame); frame is a call frame or, on the recursive call, the string
\* match[2], which has no getEvalOrigin method.  The completion carries the module
\* state after the call.
getEvalOrigin(st, fs, f) ==
    IF "evalOrigin" \notin DOMAIN f
    THEN [ok |-> FALSE, err |-> "TypeError: frame.getEvalOrigin is not a function", st |-> st]
    ELSE IF f.evalOrigin = Undefined
    THEN [ok |-> TRUE, val |-> Null, st |-> st]
    ELSE IF "file" \in DOMAIN f.evalOrigin
    THEN getEvalOrigin_position(
             f.evalOrigin,
             getSourceMapPosition(
                 st, fs,
                 [source |-> Str(f.evalOrigin.file), line |-> Num(f.evalOrigin.line),
                  column |-> Num(f.evalOrigin.column - 1)]))
    ELSE IF "inner" \in DOMAIN f.evalOrigin
    THEN \* getEvalOrigin(match[2]): the argument is a string
         [ok |-> FALSE, err |-> "TypeError: frame.getEvalOrigin is not a function",
          st |-> st]
    ELSE [ok |-> TRUE, val |-> Null, st |-> st]

\* AppendFileLocation: position is a position object or null, evalOrigin a JS value
locationInfo(fr, position, evalOrigin) ==
    LET fileName == IF position # Null THEN position.source ELSE Null
        out1 == IF ~Truthy(fileName) /\ fr.isEval THEN ToStr(evalOrigin) \o ", " ELSE ""
        out2 == out1 \o (IF Truthy(fileName) THEN ToStr(fileName) ELSE "<anonymous>")
        lineNumber == IF position # Null THEN position.line ELSE fr.lineNumber
        columnNumber == IF position # Null THEN position.column ELSE fr.columnNumber
    IN  IF ~StrictEq(lineNumber, Num(-1))
        THEN IF ~StrictEq(columnNumber, Num(-1))
             THEN out2 \o ":" \o ToStr(lineNumber) \o ":" \o ToStr(columnNumber)
             ELSE out2 \o ":" \o ToStr(lineNumber)
        ELSE out2

\* a method call rendered without the type name
MethodCall_noType(fr, functionName) ==
    IF Truthy(functionName)
    THEN functionName.v
    ELSE IF Truthy(fr.methodName) THEN fr.methodName.v ELSE "<anonymous>"

\* AppendMethodCall
MethodCall(fr, functionName) ==
    LET typeName == fr.typeName
        methodName == fr.methodName
    IN  IF Truthy(functionName)
        THEN (IF Truthy(typeName) /\ ~StartsWith(functionName.v, typeName.v)
              THEN typeName.v \o "." ELSE "")
             \o functionName.v
             \o (IF /\ Truthy(methodName)
                    /\ functionName # methodName
                    /\ ~EndsWith(functionName.v, "." \o methodName.v)
                 THEN " [as " \o methodName.v \o "]" ELSE "")
        ELSE (IF Truthy(typeName) THEN typeName.v \o "." ELSE "")
             \o (IF Truthy(methodName) THEN methodName.v ELSE "<anonymous>")

\* frameToString(frame, position, evalOrigin)
frameToString(fr, position, evalOrigin) ==
    LET isMethodCall == ~(fr.isToplevel \/ fr.isConstructor)
        functionName == IF position # Null /\ Truthy(Get(position, "name"))
                        THEN position.name ELSE fr.functionName
        string == IF fr.isAsync THEN "async " ELSE ""
        location == locationInfo(fr, position, evalOrigin)
    IN  IF fr.isPromiseAll
        THEN string \o "Promise.all (index " \o ToStr(fr.promiseIndex) \o ")"
        ELSE IF isMethodCall
        THEN string \o MethodCall(fr, functionName) \o " (" \o location \o ")"
        ELSE IF fr.isConstructor
        THEN string \o "new "
                 \o (IF Truthy(functionName) THEN functionName.v ELSE "<anonymous>")
                 \o " (" \o location \o ")"
        ELSE IF Truthy(functionName)
        THEN string \o functionName.v \o " (" \o location \o ")"
        ELSE string \o location

\* frame.toString(): the runtime's own rendering of the frame, from the values the
\* frame reports (1-based line and column)
frame_toString(fr) ==
    IF fr.isNative
    THEN (IF Truthy(fr.functionName) THEN fr.functionName.v ELSE "<anonymous>") \o " (native)"
    ELSE frameToString(
             fr,
             [source |-> JsOr(fr.fileName, fr.scriptNameOrSourceURL),
              line |-> IF fr.lineNumber = Null THEN Num(-1) ELSE fr.lineNumber,
              column |-> IF fr.columnNumber = Null THEN Num(-1) ELSE fr.columnNumber,
              name |-> Null],
             IF fr.evalOrigin = Undefined THEN Undefined ELSE Str(EvalOriginText(fr.evalOrigin)))

\* the position getMappedString asks getSourceMapPosition about
FramePosition(fr, source) ==
    [source |-> source, line |-> fr.lineNumber, column |-> JsSub(fr.columnNumber, Num(1))]

\* getMappedString after the position is mapped: position is the completion of
\* getSourceMapPosition
getMappedString_position(fr, position) ==
    IF ~position.ok
    THEN position
    ELSE [ok |-> TRUE, val |-> frameToString(fr, position.val, Null), st |-> position.st]

\* getMappedString of an eval frame: evalOrigin is the completion of getEvalOrigin
getMappedString_evalOrigin(fr, evalOrigin) ==
    IF ~evalOrigin.ok
    THEN evalOrigin
    ELSE [ok |-> TRUE,
          val |-> IF evalOrigin.val # Null
                  THEN frameToString(fr, Null, evalOrigin.val)
                  ELSE frame_toString(fr),
          st |-> evalOrigin.st]

\* getMappedString(frame); the completion carries the module state after the call
getMappedString(st, fs, fr) ==
    IF ~fr.isNative /\ Truthy(JsOr(fr.fileName, fr.scriptNameOrSourceURL))
    THEN getMappedString_position(
             fr,
             getSourceMapPosition(
                 st, fs, FramePosition(fr, JsOr(fr.fileName, fr.scriptNameOrSourceURL))))
    ELSE IF ~fr.isNative /\ fr.isEval
    THEN getMappedString_evalOrigin(fr, getEvalOrigin(st, fs, fr))
    ELSE [ok |-> TRUE, val |-> frame_toString(fr), st |-> st]

RECURSIVE MapFrames(_, _, _, _, _)

\* one is the completion of getMappedString(stack[i])
MapFrames_one(fs, stack, i, done, one) ==
    IF ~one.ok
    THEN one
    ELSE MapFrames(one.st, fs, stack, i + 1, Append(done, one.val))

\* stack.map((frame) => `\n    at ${getMappedString(frame)}`), from frame i on; the
\* completion is the list of rendered frames and the module state after the calls
MapFrames(st, fs, stack, i, done) ==
    IF i > Len(stack)
    THEN [ok |-> TRUE, val |-> done, st |-> st]
    ELSE MapFrames_one(fs, stack, i, done, getMappedString(st, fs, stack[i]))

\* the first line of the trace
ErrorString(error) ==
    IF error.isError /\ error.message = ""
    THEN error.name
    ELSE error.name \o ": " \o error.message

prepareStackTrace_frames(error, frames) ==
    IF ~frames.ok
    THEN frames
    ELSE [ok |-> TRUE, val |-> <<ErrorString(error)>> \o frames.val, st |-> frames.st]

\* the override installed as Error.prepareStackTrace, on an error and its frames:
\* the rendered lines, the error's own line first
prepareStackTrace(st, fs, error, stack) ==
    prepareStackTrace_frames(error, MapFrames(st, fs, stack, 1, <<>>))

-----------------------------------------------------------------------------
(* The resolver on its own: a document is handed to the factory, then the  *)
(* resolver is queried.                                                    *)

MaxSections == 2

Sources == <<"a.js", "b.js">>
Names == <<"foo", "bar">>

BasicDocs ==
    {[mappings |-> p, sources |-> Sources, names |-> Names] : p \in Payloads}
        \cup {[mappings |-> p, sources |-> Sources, names |-> Names, sourceRoot |-> Str("/src")] :
                 p \in {q \in Payloads : Len(q.table) = 1}}
        \cup {[mappings |-> p, names |-> Names] : p \in {q \in Payloads : Len(q.table) = 0}}

\* the map every section of a composite document carries
SectionMap ==
    [mappings |-> [error |-> 0,
                   table |-> <<RawRecord(<<0, 1>>, Original(1, 3, 2, TRUE, 1)),
                               RawRecord(<<1, 3>>, Original(1, 2, 1, FALSE, 0))>>],
     sources |-> Sources, names |-> Names]

SectionOffsets == {[line |-> Num(0), column |-> Num(0)],
                   [line |-> Num(0), column |-> Num(2)],
                   [line |-> Num(2), column |-> Num(0)]}

\* the sections of a document: as the format has them, {offset: {line, column}, map},
\* or carrying line and column beside offset as well
Section(o, flat) ==
    IF flat
    THEN [offset |-> o, line |-> o.line, column |-> o.column, map |-> SectionMap]
    ELSE [offset |-> o, map |-> SectionMap]

UrlSection == [url |-> Str("http://x/y.map"), offset |-> [line |-> Num(0), column |-> Num(0)]]

IndexedDocs ==
    {[sections |-> [i \in DOMAIN os |-> Section(os[i], flat)]] :
        os \in UNION {[1..n -> SectionOffsets] : n \in 0..MaxSections}, flat \in BOOLEAN}
        \cup {[sections |-> <<UrlSection>>]}

Documents == BasicDocs \cup IndexedDocs

QueryColumns == {0, 1, 2, 4}

QueryArgs ==
    {[line |-> Num(l), column |-> Num(c), bias |-> b] :
        l \in 1..3, c \in QueryColumns,
        b \in {Num(GREATEST_LOWER_BOUND), Num(LEAST_UPPER_BOUND)}}
        \cup {[line |-> Num(l), column |-> Num(c)] : l \in 1..3, c \in QueryColumns}
        \cup {[line |-> Num(0), column |-> Num(1)], [line |-> Num(1), column |-> Num(-1)],
              [line |-> Num(-1), column |-> Num(-1)],
              [line |-> Num(0), column |-> Num(0), bias |-> Num(LEAST_UPPER_BOUND)],
              [line |-> Null, column |-> Num(1)], [line |-> Num(1), column |-> Null]}

NotBuilt == [kind |-> "none"]
Failed == [kind |-> "failed"]
NoArgs == [none |-> TRUE]
NoResult == [op |-> "none"]

\* the parts of the state a specification leaves alone
NoFrame == [none |-> TRUE]

IdleResolver ==
    /\ document = [none |-> TRUE]
    /\ consumer = NotBuilt
    /\ args = NoArgs

Absent == [present |-> FALSE]

IdleHook ==
    /\ hook = Absent
    /\ restores = <<>>

NoHaystack == <<>>
NoSet == [none |-> TRUE]

IdleLib ==
    /\ haystack = NoHaystack
    /\ arraySet = NoSet

IdleTrace ==
    /\ files = <<>>
    /\ cache = <<>>
    /\ reads = 0
    /\ allocs = 0
    /\ frame = NoFrame

InitResolver ==
    /\ document \in Documents
    /\ consumer = NotBuilt
    /\ args = NoArgs
    /\ result = NoResult
    /\ IdleTrace
    /\ IdleHook
    /\ IdleLib

\* the state after the factory has completed with made
Constructed(made) ==
    /\ consumer' = IF made.ok THEN made.val ELSE Failed
    /\ result' = [op |-> "construct"] @@ made

\* new SourceMapConsumer(document, url)
Construct ==
    /\ consumer = NotBuilt
    /\ Constructed(SourceMapConsumer(document, "/g/a.js.map"))
    /\ UNCHANGED <<document, args, traceVars, hookVars, libVars>>

\* the state after originalPositionFor(a) has completed with r
Queried(a, r) ==
    /\ consumer' = r.self
    /\ args' = a
    /\ result' = [op |-> "originalPositionFor", via |-> r.via]
                    @@ (IF r.ok THEN Return(r.val) ELSE Throw(r.err))

\* consumer.originalPositionFor(a)
Query ==
    /\ consumer.kind \in {"basic", "indexed"}
    /\ \E a \in QueryArgs : Queried(a, OriginalPositionFor(consumer, a))
    /\ UNCHANGED <<document, traceVars, hookVars, libVars>>

NextResolver == Construct \/ Query

SpecResolver == InitResolver /\ [][NextResolver]_vars

-----------------------------------------------------------------------------
(* The trace rewriting: generated files and their maps on a file system,   *)
(* getSourceMap called on paths, the override called on a stack.           *)

\* the map of /g/a.js: column 1 of line 1 maps to source 0 with name 0, column 3 to
\* source 1 with name 1, column 1 of line 2 has no original side
DocA ==
    [mappings |-> [error |-> 0,
                   table |-> <<RawRecord(<<0, 1>>, Original(0, 2, 2, TRUE, 0)),
                               RawRecord(<<0, 3>>, Original(1, 3, 0, TRUE, 1)),
                               RawRecord(<<1, 1>>, NoOriginal)>>],
     sources |-> Sources, names |-> Names]

\* a map whose payload does not decode
DocBadPayload == [mappings |-> [error |-> 3, table |-> <<>>], sources |-> Sources, names |-> Names]

DocSections == [sections |-> <<Section([line |-> Num(0), column |-> Num(0)], FALSE)>>]

MapText(doc, xssi) == [xssi |-> xssi, valid |-> TRUE, doc |-> doc]

GeneratedText(comments) == [comments |-> comments]

\* the map of /g/a.js with the texts of its two sources embedded
DocContent == DocA @@ [sourcesContent |-> <<Str("let a"), Str("let b")>>]

\* a map file that is not JSON
BrokenText == [xssi |-> FALSE, valid |-> FALSE, doc |-> DocA]

MapTexts ==
    {MapText(DocA, FALSE), MapText(DocA, TRUE), MapText(DocSections, FALSE),
     MapText(DocContent, FALSE), MapText([sections |-> <<UrlSection>>], FALSE), BrokenText}

\* /g/a.js refers to its map, /g/b.js refers to none, the map of /g/c.js does not
\* decode, /g/e.js does not exist
FileSystem(mapA) ==
    [q \in {"/g/a.js", "/g/a.js.map", "/g/b.js", "/g/c.js", "/g/c.js.map"} |->
        CASE q = "/g/a.js" -> GeneratedText(<<LineComment("a.js.map")>>)
          [] q = "/g/a.js.map" -> mapA
          [] q = "/g/b.js" -> GeneratedText(<<>>)
          [] q = "/g/c.js" -> GeneratedText(<<LineComment("c.js.map")>>)
          [] q = "/g/c.js.map" -> MapText(DocBadPayload, FALSE)]

\* the mapping references /g/a.js may carry instead: the block form, two references
\* of which the last is the map's, and a reference to a file that does not exist
References ==
    {<<BlockComment("a.js.map")>>,
     <<LineComment("c.js.map"), LineComment("a.js.map")>>,
     <<LineComment("a.js.map"), BlockComment("a.js.map")>>,
     <<LineComment("x.js.map")>>}

FileSystems ==
    {FileSystem(t) : t \in MapTexts}
        \cup {[FileSystem(MapText(DocA, FALSE)) EXCEPT !["/g/a.js"] = GeneratedText(c)] :
                 c \in References}

GeneratedPaths == {"/g/a.js", "/g/b.js", "/g/c.js", "/g/e.js"}

\* call frames, as the runtime describes them
PlainFrame(file, line, column) ==
    [isNative |-> FALSE, fileName |-> file, scriptNameOrSourceURL |-> Null,
     lineNumber |-> line, columnNumber |-> column,
     functionName |-> Null, typeName |-> Null, methodName |-> Null,
     isToplevel |-> TRUE, isConstructor |-> FALSE, isAsync |-> FALSE,
     isPromiseAll |-> FALSE, promiseIndex |-> Null, isEval |-> FALSE,
     evalOrigin |-> Undefined]

FramePositions ==
    {<<Num(1), Num(1)>>, <<Num(1), Num(2)>>, <<Num(1), Num(4)>>, <<Num(2), Num(2)>>,
     <<Num(3), Num(1)>>, <<Num(1), Null>>, <<Null, Null>>}

PlainFrames ==
    {PlainFrame(Str("/g/a.js"), pos[1], pos[2]) : pos \in FramePositions}
        \cup {PlainFrame(file, Num(1), Num(2)) :
                 file \in {Str(q) : q \in GeneratedPaths} \cup {Null}}

\* the kinds of frame: a named function, a constructor, method calls, async,
\* Promise.all, native
Kinded(fr) ==
    { [fr EXCEPT !.functionName = Str("fn")],
      [fr EXCEPT !.functionName = Str("Foo"), !.isToplevel = FALSE, !.isConstructor = TRUE],
      [fr EXCEPT !.isToplevel = FALSE, !.isConstructor = TRUE],
      [fr EXCEPT !.isToplevel = FALSE, !.typeName = Str("Array"), !.methodName = Str("map")],
      [fr EXCEPT !.isToplevel = FALSE, !.typeName = Str("Array"),
                 !.functionName = Str("Array.map"), !.methodName = Str("map")],
      [fr EXCEPT !.isToplevel = FALSE, !.typeName = Str("Foo"),
                 !.functionName = Str("fn"), !.methodName = Str("bar")],
      [fr EXCEPT !.isToplevel = FALSE],
      [fr EXCEPT !.functionName = Str("fn"), !.isAsync = TRUE],
      [fr EXCEPT !.isAsync = TRUE, !.isPromiseAll = TRUE, !.promiseIndex = Num(2)],
      [fr EXCEPT !.functionName = Str("fn"), !.isNative = TRUE] }

KindedFrames ==
    UNION {Kinded(PlainFrame(Str("/g/a.js"), Num(1), Num(4))),
           Kinded(PlainFrame(Str("/g/b.js"), Num(1), Num(2)))}

EvalOrigins ==
    {Undefined,
     [fn |-> "f", file |-> "/g/a.js", line |-> 1, column |-> 4],
     [fn |-> "f", inner |-> "eval at g (/g/a.js:1:4)"],
     [other |-> "eval code"]}

EvalFrames ==
    {[PlainFrame(Null, Num(1), Num(1)) EXCEPT !.isEval = TRUE, !.evalOrigin = o] :
        o \in EvalOrigins}

Frames == PlainFrames \cup KindedFrames \cup EvalFrames

TheError == [isError |-> TRUE, name |-> "Error", message |-> "boom"]

InitTrace ==
    /\ files \in FileSystems
    /\ cache = <<>>
    /\ reads = 0
    /\ allocs = 0
    /\ frame = NoFrame
    /\ result = NoResult
    /\ IdleResolver
    /\ IdleHook
    /\ IdleLib

\* the state after getSourceMap(pathname) has returned got
GotSourceMap(pathname, got) ==
    /\ cache' = got.st.cache
    /\ reads' = got.st.reads
    /\ allocs' = got.st.allocs
    /\ result' = [op |-> "getSourceMap", path |-> pathname,
                  hit |-> pathname \in DOMAIN cache, ok |-> TRUE, val |-> got.val]

\* getSourceMap(pathname)
CallGetSourceMap ==
    /\ \E pathname \in GeneratedPaths :
          GotSourceMap(pathname, getSourceMap(ModuleState, files, pathname, Undefined))
    /\ UNCHANGED <<files, frame, resolverVars, hookVars, libVars>>

\* the state after the override has completed with r on the frame fr
Rendered(fr, r) ==
    /\ frame' = fr
    /\ cache' = r.st.cache
    /\ reads' = r.st.reads
    /\ allocs' = r.st.allocs
    /\ result' = [op |-> "render"] @@ (IF r.ok THEN Return(r.val) ELSE Throw(r.err))

\* Error.prepareStackTrace(error, [frame]) with the override installed
Render ==
    /\ \E fr \in Frames :
          Rendered(fr, prepareStackTrace(ModuleState, files, TheError, <<fr>>))
    /\ UNCHANGED <<files, resolverVars, hookVars, libVars>>

\* the generated file /g/a.js is rewritten while the process runs: its mapping
\* reference is removed or put back
EditFile ==
    /\ files' = [files EXCEPT !["/g/a.js"] =
                    IF Len(@.comments) = 0
                    THEN GeneratedText(<<LineComment("a.js.map")>>)
                    ELSE GeneratedText(<<>>)]
    /\ UNCHANGED <<cache, reads, allocs, frame, result, resolverVars, hookVars, libVars>>

NextTrace == CallGetSourceMap \/ Render \/ EditFile

SpecTrace == InitTrace /\ [][NextTrace]_vars


-----------------------------------------------------------------------------
(* frameToString on its own: a frame, a position or null, an eval origin   *)
(* or null.                                                                *)

\* the frames formatted: the kinds of frame, the eval frames, and Promise.all
\* frames that carry other flags as well
FormatFrames ==
    Kinded(PlainFrame(Str("/g/a.js"), Num(1), Num(4)))
        \cup EvalFrames
        \cup {[PlainFrame(Str("/g/a.js"), Num(1), Num(4)) EXCEPT
                  !.isPromiseAll = TRUE, !.promiseIndex = Num(0)],
              [PlainFrame(Str("/g/a.js"), Num(1), Num(4)) EXCEPT
                  !.isPromiseAll = TRUE, !.promiseIndex = Num(1), !.isToplevel = FALSE,
                  !.isConstructor = TRUE, !.functionName = Str("Foo")],
              [PlainFrame(Str("/g/a.js"), Num(1), Num(4)) EXCEPT
                  !.isAsync = TRUE, !.isToplevel = FALSE, !.typeName = Str("Array"),
                  !.methodName = Str("map")]}

\* the position argument: null, the position getMappedString built, or a resolver's
\* answer with or without a name
FormatPositions ==
    {Null,
     [source |-> Str("/g/a.js"), line |-> Num(1), column |-> Num(3)],
     [source |-> Str("/src/a.js"), line |-> Num(3), column |-> Num(2), name |-> Null],
     [source |-> Str("/src/a.js"), line |-> Num(3), column |-> Num(2), name |-> Str("bar")],
     NullPosition}

InitFormat ==
    /\ frame = NoFrame
    /\ result = NoResult
    /\ files = <<>>
    /\ cache = <<>>
    /\ reads = 0
    /\ allocs = 0
    /\ IdleResolver
    /\ IdleHook
    /\ IdleLib

\* frameToString(fr, position, evalOrigin)
Format ==
    /\ \E fr \in FormatFrames, position \in FormatPositions,
          evalOrigin \in {Null, Str("eval at f (/g/a.js:1:4)")} :
          /\ frame' = fr
          /\ args' = [position |-> position, evalOrigin |-> evalOrigin]
          /\ result' = [op |-> "frameToString"]
                          @@ Return(frameToString(fr, position, evalOrigin))
    /\ UNCHANGED <<document, consumer, files, cache, reads, allocs, hookVars, libVars>>

SpecFormat == InitFormat /\ [][Format]_vars

-----------------------------------------------------------------------------
(* binarySearch on its own: a sorted array of numbers, a needle, a bias.   *)

MaxLen == 3

SearchKeys == {1, 3, 5}

\* the sorted arrays of at most MaxLen keys, duplicate keys included
Haystacks ==
    {h \in UNION {[1..n -> {Num(k) : k \in SearchKeys}] : n \in 0..MaxLen} :
        \A i \in 1..(Len(h) - 1) : h[i].v <= h[i + 1].v}

InitSearch ==
    /\ haystack = NoHaystack
    /\ arraySet = NoSet
    /\ result = NoResult
    /\ IdleResolver
    /\ IdleTrace
    /\ IdleHook

\* binarySearch(needle, haystack, (a, b) => a - b, bias)
Search ==
    /\ \E h \in Haystacks, n \in 0..6,
          b \in {Num(GREATEST_LOWER_BOUND), Num(LEAST_UPPER_BOUND), Undefined} :
          /\ haystack' = h
          /\ args' = [needle |-> Num(n), bias |-> b]
          /\ result' = [op |-> "binarySearch", ok |-> TRUE,
                        val |-> binarySearch(Num(n), h, "number", b)]
    /\ UNCHANGED <<document, consumer, arraySet, traceVars, hookVars>>

SpecSearch == InitSearch /\ [][Search]_vars

-----------------------------------------------------------------------------
(* ArraySet on its own: strings are added to a new set.                    *)

MaxAdds == 4

InitArraySet ==
    /\ arraySet = ArraySet_new
    /\ haystack = NoHaystack
    /\ result = NoResult
    /\ IdleResolver
    /\ IdleTrace
    /\ IdleHook

\* arraySet.add(aStr, aAllowDuplicates)
Add ==
    /\ Len(arraySet._array) < MaxAdds
    /\ \E aStr \in {"a.js", "b.js", "c.js"}, aAllowDuplicates \in BOOLEAN :
          /\ arraySet' = ArraySet_add(arraySet, aStr, aAllowDuplicates)
          /\ result' = [op |-> "add", ok |-> TRUE, val |-> aStr,
                        aAllowDuplicates |-> aAllowDuplicates]
    /\ UNCHANGED <<haystack, resolverVars, traceVars, hookVars>>

SpecArraySet == InitArraySet /\ [][Add]_vars
-----------------------------------------------------------------------------
(* The installer: Error.prepareStackTrace is a property of the Error       *)
(* constructor that other code assigns and deletes as well.                *)

MaxInstalls == 2

\* a function object, told from the others by its name
Fn(name) == [t |-> "function", v |-> name]

\* the arrow function the k-th call of the installer creates
Override(k) == Fn("override" \o ToString(k))

Present(v) == [present |-> TRUE, val |-> v]

\* the value the expression Error.prepareStackTrace reads
ReadHook(h) == IF h.present THEN h.val ELSE Undefined

\* the values other code leaves in the property
HookValues == {Null, Undefined, Fn("user")}

InitHook ==
    /\ hook \in {Absent} \cup {Present(v) : v \in HookValues}
    /\ restores = <<>>
    /\ result = NoResult
    /\ IdleResolver
    /\ IdleTrace
    /\ IdleLib

\* module.exports(): the hook is captured and replaced; the restore function returned
\* is kept with the value it closes over (`before` records the property as it was)
Install ==
    /\ Len(restores) < MaxInstalls
    /\ restores' = Append(restores, [originalPrepareStackTrace |-> ReadHook(hook),
                                     before |-> hook])
    /\ hook' = Present(Override(Len(restores) + 1))
    /\ result' = [op |-> "install", index |-> Len(restores) + 1]
    /\ UNCHANGED <<resolverVars, traceVars, libVars>>

\* a restore function that always removes the property
RestoredHook_alwaysDelete(originalPrepareStackTrace) == Absent

\* the property after the restore function has run
RestoredHook(originalPrepareStackTrace) ==
    IF Truthy(originalPrepareStackTrace)
    THEN Present(originalPrepareStackTrace)
    ELSE Absent

\* a call of the restore function the i-th install returned
Restore ==
    /\ \E i \in DOMAIN restores :
          /\ hook' = RestoredHook(restores[i].originalPrepareStackTrace)
          /\ result' = [op |-> "restore", index |-> i]
    /\ UNCHANGED <<restores, resolverVars, traceVars, libVars>>

\* other code: Error.prepareStackTrace = v
AssignHook ==
    /\ \E v \in HookValues : hook' = Present(v)
    /\ result' = [op |-> "assign"]
    /\ UNCHANGED <<restores, resolverVars, traceVars, libVars>>

\* other code: delete Error.prepareStackTrace
DeleteHook ==
    /\ hook' = Absent
    /\ result' = [op |-> "delete"]
    /\ UNCHANGED <<restores, resolverVars, traceVars, libVars>>

NextHook == Install \/ Restore \/ AssignHook \/ DeleteHook

SpecHook == InitHook /\ [][NextHook]_vars

-----------------------------------------------------------------------------
(* Claims about the single-map resolver (SpecResolver) *)

\* the last step was a successful originalPositionFor on a single-map resolver
BasicAnswered ==
    /\ consumer.kind = "basic"
    /\ result.op = "originalPositionFor"
    /\ result.ok

\* the bias the last call ran under
ArgsBias == IF "bias" \in DOMAIN args THEN args.bias.v ELSE GREATEST_LOWER_BOUND

\* the records of the decoded table, in the resolver's coordinates
TableMappings ==
    {mapping_callback(consumer._mappings.table[i]) : i \in 1..Len(consumer._mappings.table)}

\* the decoder's nearest match for the last call, in the resolver's coordinates
DecoderMatch ==
    {mapping_callback(r) :
        r \in original_location_for(consumer._mappings.table,
                                    ToInt32(JsSub(args.line, Num(1))),
                                    ToInt32(args.column), ArgsBias)}

\* the original position of a record, its indices looked up in the tables
OriginalOf(m) ==
    [source |-> IF m.source = Null
                THEN Null ELSE Str(consumer._absoluteSources._array[m.source.v + 1]),
     line |-> m.originalLine,
     column |-> m.originalColumn,
     name |-> IF m.name = Null THEN Null ELSE Str(consumer._names._array[m.name.v + 1])]

\* C1: when originalPositionFor accepts a matched record that has an original side,
\* the result's source is the source-path table entry at the record's source index
\* and its name the name-table entry at the record's name index, index 0 included.
C1_SourceAndNameByIndex ==
    BasicAnswered =>
        \A m \in DecoderMatch :
            (m.generatedLine = args.line /\ m.source # Null) =>
                /\ result.val.source = OriginalOf(m).source
                /\ m.name # Null => result.val.name = OriginalOf(m).name

\* C9: originalPositionFor never answers from a record whose generatedLine differs
\* from the queried line: when the decoder's nearest match (under either bias) lies
\* on another line the result is the all-null position, and a non-null answer is the
\* line and column of a record of the queried line.
C9_RowBoundaryGuard ==
    BasicAnswered =>
        /\ \A m \in DecoderMatch : m.generatedLine # args.line => result.val = NullPosition
        /\ result.val.line # Null =>
              \E m \in TableMappings :
                  /\ m.generatedLine = args.line
                  /\ result.val.line = m.originalLine
                  /\ result.val.column = m.originalColumn

\* C9 witness: the decoder's nearest match has an original side and lies on another
\* line than the queried one, and the call answered.
C9_Witness ==
    /\ BasicAnswered
    /\ \E m \in DecoderMatch : m.generatedLine # args.line /\ m.source # Null

\* the first record of the table, when the last query lies before it on its line
FirstRecordAhead ==
    {m \in TableMappings :
        /\ \A o \in TableMappings :
              \/ JsLt(m.generatedLine, o.generatedLine)
              \/ m.generatedLine = o.generatedLine
                 /\ ~JsLt(o.generatedColumn, m.generatedColumn)
        /\ m.generatedLine = args.line
        /\ JsLt(args.column, m.generatedColumn)}

\* C10: a query before the first mapping record (on the first record's line, the
\* only place the row-boundary guard lets a match through) yields the all-null
\* position under GREATEST_LOWER_BOUND and the first record's original position
\* under LEAST_UPPER_BOUND.
C10_BeforeFirstRecord ==
    BasicAnswered =>
        \A m \in FirstRecordAhead :
            /\ ArgsBias = GREATEST_LOWER_BOUND => result.val = NullPosition
            /\ ArgsBias = LEAST_UPPER_BOUND => result.val = OriginalOf(m)

-----------------------------------------------------------------------------
(* Claims about the composite resolver (SpecResolver) *)

\* the offsets of the document's sections are strictly ordered by (line, column)
OffsetLess(a, b) ==
    \/ a.line.v < b.line.v
    \/ a.line.v = b.line.v /\ a.column.v < b.column.v

StrictlyOrdered(sections) ==
    \A i \in 1..(Len(sections) - 1) : OffsetLess(sections[i].offset, sections[i + 1].offset)

\* the query (1-based line, 0-based column) lies at or after the anchor of a section
\* whose offset (0-based line and column) is o
AtOrAfter(a, o) ==
    \/ a.line.v > o.line.v + 1
    \/ a.line.v = o.line.v + 1 /\ a.column.v >= o.column.v

\* the sections of the document that cover the last query
Covering ==
    {i \in 1..Len(document.sections) :
        /\ AtOrAfter(args, document.sections[i].offset)
        /\ i < Len(document.sections) => ~AtOrAfter(args, document.sections[i + 1].offset)}

\* C5: a query at a generated position at or after a section's anchor and before the
\* next section's anchor is delegated to that section, with local line = line minus
\* the section's line offset and local column = column minus the section's column
\* offset on the anchor line only.
C5_DelegatesToSection ==
    ( /\ consumer.kind = "indexed"
      /\ result.op = "originalPositionFor"
      /\ IsNum(args.line) /\ IsNum(args.column) /\ args.line.v >= 1 /\ args.column.v >= 0
      /\ StrictlyOrdered(document.sections) ) =>
        \A i \in Covering :
            LET o == document.sections[i].offset
            IN  result.via =
                    << [section |-> i - 1,
                        args |-> [line |-> Num(args.line.v - o.line.v),
                                  column |-> IF args.line.v = o.line.v + 1
                                             THEN Num(args.column.v - o.column.v)
                                             ELSE args.column,
                                  bias |-> Get(args, "bias")]] >>

\* C6: constructing a composite resolver fails whenever some section's offset is out
\* of order with, or equal to, its predecessor's: no composite resolver with
\* unordered sections exists.
C6_OrderedSections ==
    consumer.kind = "indexed" => StrictlyOrdered(document.sections)

-----------------------------------------------------------------------------
(* Claims about the trace rewriting (SpecTrace) *)

\* the last step rendered an anonymous top-level frame of a named file
RenderedPlain ==
    /\ result.op = "render"
    /\ frame \in PlainFrames
    /\ frame.fileName # Null

\* the file of the rendered frame has no source map / has a loaded one
Unmapped == RenderedPlain /\ cache[frame.fileName.v] = Null

Mapped == RenderedPlain /\ cache[frame.fileName.v] # Null

\* what the resolver of the frame's file answers for the frame's position
Resolved ==
    OriginalPositionFor(cache[frame.fileName.v], FramePosition(frame, frame.fileName))

\* the rendering of an anonymous top-level frame: the location, behind the name the
\* resolved position carries, if any
Line(name, location) ==
    IF Truthy(name) THEN name.v \o " (" \o location \o ")" ELSE location

\* the rendered trace of one frame
Trace(line) == <<ErrorString(TheError), line>>

\* C2: the printed column is 1-based: a frame whose file has no source map prints the
\* runtime-reported file, line and column; a mapped frame prints the resolved 0-based
\* original column plus 1
C2_PrintedColumnOneBased ==
    /\ (Unmapped /\ IsNum(frame.lineNumber) /\ IsNum(frame.columnNumber)) =>
          /\ result.ok
          /\ result.val = Trace(frame.fileName.v \o ":" \o ToStr(frame.lineNumber)
                                    \o ":" \o ToStr(frame.columnNumber))
    /\ (/\ Mapped /\ result.ok /\ Resolved.ok
        /\ Truthy(Resolved.val.source)
        /\ IsNum(Resolved.val.line)
        /\ IsNum(Resolved.val.column)) =>
             result.val = Trace(Line(Resolved.val.name,
                                     Resolved.val.source.v \o ":" \o ToStr(Resolved.val.line)
                                         \o ":" \o ToString(Resolved.val.column.v + 1)))

\* C3: the hook never raises while rendering: when the file of the frame has a loaded
\* map and the resolution fails (the payload does not decode, or the coordinates fail
\* the resolver's validation) the frame is rendered as the runtime renders it
C3_HookNeverRaises ==
    (Mapped /\ ~Resolved.ok) =>
        /\ result.ok
        /\ result.val = Trace(frame_toString(frame))

\* the location suffix the resolved position and the frame call for: the resolved
\* file, else the runtime-reported file, else <anonymous>, then the line and the
\* column unless -1 or null
Suffix(position, fr) ==
    (IF Truthy(position.source) THEN position.source.v
     ELSE IF Truthy(fr.fileName) THEN fr.fileName.v
     ELSE "<anonymous>")
    \o (IF position.line \in {Num(-1), Null} THEN ""
        ELSE ":" \o ToStr(position.line)
                 \o (IF position.column \in {Num(-1), Null} THEN ""
                     ELSE ":" \o ToStr(position.column)))

\* C4: for every resolved position, the all-null one included, the location suffix is
\* the resolved file, else the runtime-reported file, else <anonymous>, followed by
\* the line and the column only when they are neither -1 nor null
C4_LocationSuffix ==
    (Mapped /\ result.ok /\ Resolved.ok) =>
        result.val = Trace(Line(Resolved.val.name, Suffix(Resolved.val, frame)))

\* the step is a call of getSourceMap (or leaves the state as it is)
IsGetSourceMap ==
    /\ result'.op = "getSourceMap"
    /\ files' = files
    /\ frame' = frame

\* C8: a second getSourceMap on a path returns the cached value, the identical
\* instance, without a file read or a construction; a cached entry never changes its
\* identity, and a negative entry stays negative
C8_CacheIdentity ==
    [][/\ (IsGetSourceMap /\ result'.path \in DOMAIN cache) =>
             /\ result'.val = cache[result'.path]
             /\ reads' = reads
             /\ allocs' = allocs
             /\ cache' = cache
       /\ \A p \in DOMAIN cache :
             /\ p \in DOMAIN cache'
             /\ cache[p] = Null => cache'[p] = Null
             /\ cache[p] # Null => (cache'[p] # Null /\ cache'[p].id = cache[p].id)]_vars

\* a second call has returned a cached resolver, and a path without a mapping
\* reference holds its negative entry
C8_Witness ==
    /\ result.op = "getSourceMap"
    /\ result.hit
    /\ result.val # Null
    /\ "/g/b.js" \in DOMAIN cache
    /\ cache["/g/b.js"] = Null

-----------------------------------------------------------------------------
(* Claims about the installer (SpecHook) *)

\* C7 as stated: the installer replaces the hook with the override, and the restore
\* function sets the property back to exactly what it was when the installer was
\* called: the same value, or absent if it was absent
C7_RestoresExactly ==
    /\ result.op = "install" =>
          /\ hook = Present(Override(result.index))
          /\ Len(restores) = result.index
    /\ result.op = "restore" => hook = restores[result.index].before

\* C7 amended: the restore function sets the property back to the value it had when
\* that value was truthy (a function), and removes the property otherwise: when it
\* was absent, and also when it held a falsy value such as null or undefined
C7_RestoresTruthy ==
    /\ result.op = "install" =>
          /\ hook = Present(Override(result.index))
          /\ Len(restores) = result.index
    /\ result.op = "restore" =>
          hook = IF restores[result.index].before.present
                    /\ Truthy(restores[result.index].before.val)
                 THEN restores[result.index].before
                 ELSE Absent

\* a restore function has put back the user's function over a later override
C7_Witness ==
    /\ result.op = "restore"
    /\ restores[result.index].before = Present(Fn("user"))
    /\ hook = Present(Fn("user"))
    /\ Len(restores) = MaxInstalls

-----------------------------------------------------------------------------
(* Claims about the validation of the coordinates (SpecResolver) *)

\* C11: originalPositionFor on a single-map resolver raises, and returns no result,
\* for every call with line < 1 or column < 0; the error is the validation's, also
\* when the mapping payload would not decode
C11_InvalidCoordinatesRaise ==
    (/\ consumer.kind = "basic"
     /\ result.op = "originalPositionFor"
     /\ (JsLt(args.line, Num(1)) \/ JsLt(args.column, Num(0)))) =>
        /\ ~result.ok
        /\ result.err = IF JsLt(args.line, Num(1))
                        THEN "Line numbers must be >= 1"
                        ELSE "Column numbers must be >= 0"

\* a call with line 0 and one with a negative column have both raised; here the
\* column was negative on a valid line
C11_Witness ==
    /\ consumer.kind = "basic"
    /\ result.op = "originalPositionFor"
    /\ args.line = Num(1)
    /\ args.column = Num(-1)
    /\ ~result.ok

-----------------------------------------------------------------------------
(* Claims about the frame head (SpecFormat) *)

\* the last step formatted a frame
Formatted == result.op = "frameToString"

\* the location suffix of the last formatting
FormattedLocation == locationInfo(frame, args.position, args.evalOrigin)

\* the function name frameToString works with: the position's, else the frame's
EffectiveName ==
    IF args.position # Null /\ Truthy(Get(args.position, "name"))
    THEN args.position.name
    ELSE frame.functionName

AsyncPrefix == IF frame.isAsync THEN "async " ELSE ""

\* C12 as stated: a constructor frame with function name Foo renders
\* `new Foo (<location>)`, a method call on type Array, method map and no function
\* name renders `Array.map (<location>)`, and a Promise.all frame renders exactly
\* `Promise.all (index N)`, whatever its other flags
C12_FrameHead ==
    Formatted =>
        /\ frame.isPromiseAll =>
              result.val = "Promise.all (index " \o ToStr(frame.promiseIndex) \o ")"
        /\ (~frame.isPromiseAll /\ frame.isConstructor /\ frame.functionName = Str("Foo")) =>
              result.val = "new Foo (" \o FormattedLocation \o ")"
        /\ (/\ ~frame.isPromiseAll /\ ~frame.isToplevel /\ ~frame.isConstructor
            /\ frame.typeName = Str("Array") /\ frame.methodName = Str("map")
            /\ frame.functionName = Null) =>
              result.val = "Array.map (" \o FormattedLocation \o ")"

\* C12 amended: every head is preceded by `async ` when the frame is async, the
\* Promise.all head included, and the function name is the resolved position's name
\* when it has one, else the frame's
C12_FrameHeadAsync ==
    Formatted =>
        /\ frame.isPromiseAll =>
              result.val = AsyncPrefix \o "Promise.all (index "
                               \o ToStr(frame.promiseIndex) \o ")"
        /\ (~frame.isPromiseAll /\ frame.isConstructor /\ EffectiveName = Str("Foo")) =>
              result.val = AsyncPrefix \o "new Foo (" \o FormattedLocation \o ")"
        /\ (/\ ~frame.isPromiseAll /\ ~frame.isToplevel /\ ~frame.isConstructor
            /\ frame.typeName = Str("Array") /\ frame.methodName = Str("map")
            /\ ~Truthy(EffectiveName)) =>
              result.val = AsyncPrefix \o "Array.map (" \o FormattedLocation \o ")"

\* an async method call on Array.map without a function name has been formatted
C12_Witness ==
    /\ Formatted
    /\ frame.isAsync
    /\ ~frame.isPromiseAll /\ ~frame.isToplevel /\ ~frame.isConstructor
    /\ frame.typeName = Str("Array") /\ frame.methodName = Str("map")
    /\ ~Truthy(EffectiveName)
    /\ result.val = "async Array.map (/src/a.js:3:2)"

-----------------------------------------------------------------------------
(* Claims about binarySearch (SpecSearch); indices are the code's, 0-based *)

Searched == result.op = "binarySearch"

\* the bias the search ran under
SearchBias == IF args.bias = Undefined THEN GREATEST_LOWER_BOUND ELSE args.bias.v

\* the indices whose element is equal to, at most, at least the needle
EqualTo == {j \in 0..(Len(haystack) - 1) : haystack[j + 1].v = args.needle.v}

AtMost == {j \in 0..(Len(haystack) - 1) : haystack[j + 1].v <= args.needle.v}

AtLeast == {j \in 0..(Len(haystack) - 1) : haystack[j + 1].v >= args.needle.v}

Smallest(S) == CHOOSE j \in S : \A k \in S : j <= k

Largest(S) == CHOOSE j \in S : \A k \in S : k <= j

\* C13: with the needle an element of a non-empty sorted array and
\* GREATEST_LOWER_BOUND, binarySearch returns the smallest index whose element
\* compares equal to the needle, runs of duplicate keys included
C13_SmallestEqualIndex ==
    (Searched /\ SearchBias = GREATEST_LOWER_BOUND /\ EqualTo # {}) =>
        result.val = Smallest(EqualTo)

\* the needle was found in a run of three equal keys
C13_Witness ==
    /\ Searched
    /\ SearchBias = GREATEST_LOWER_BOUND
    /\ Cardinality(EqualTo) = 3
    /\ result.val = 0

\* C14 as stated: with the needle equal to no element, binarySearch returns under
\* GREATEST_LOWER_BOUND the largest index whose element is <= needle, under
\* LEAST_UPPER_BOUND the smallest index whose element is >= needle, -1 if none
C14_NearestIndex ==
    (Searched /\ EqualTo = {}) =>
        /\ SearchBias = GREATEST_LOWER_BOUND =>
              result.val = IF AtMost = {} THEN -1 ELSE Largest(AtMost)
        /\ SearchBias = LEAST_UPPER_BOUND =>
              result.val = IF AtLeast = {} THEN -1 ELSE Smallest(AtLeast)

\* C14 amended: under GREATEST_LOWER_BOUND the result is the smallest index of the run
\* of keys equal to the greatest element <= needle (the largest such index only when
\* that key is not duplicated); under LEAST_UPPER_BOUND it is as stated
C14_NearestRunStart ==
    (Searched /\ EqualTo = {}) =>
        /\ SearchBias = GREATEST_LOWER_BOUND =>
              result.val = IF AtMost = {} THEN -1
                           ELSE Smallest({j \in AtMost :
                                            haystack[j + 1] = haystack[Largest(AtMost) + 1]})
        /\ SearchBias = LEAST_UPPER_BOUND =>
              result.val = IF AtLeast = {} THEN -1 ELSE Smallest(AtLeast)

\* a needle between a run of two equal keys and a larger key was searched under
\* LEAST_UPPER_BOUND
C14_Witness ==
    /\ Searched
    /\ EqualTo = {}
    /\ SearchBias = LEAST_UPPER_BOUND
    /\ Cardinality(AtMost) = 2
    /\ haystack[1] = haystack[2]
    /\ result.val = 2

-----------------------------------------------------------------------------
(* Claims about ArraySet (SpecArraySet); indices are the code's, 0-based *)

\* the indices of the stored sequence
Stored == 0..(Len(arraySet._array) - 1)

\* indexOf(at(i))
IndexOfAt(i) == ArraySet_indexOf(arraySet, ArraySet_at(arraySet, Num(i)).val.v)

\* C15 as stated: after any sequence of add calls, with either value of
\* allowDuplicates, indexOf(at(i)) = i for every index i of the stored sequence
C15_ReverseIndex ==
    \A i \in Stored : IndexOfAt(i).ok /\ IndexOfAt(i).val = i

\* C15 amended: indexOf(at(i)) is the smallest index that holds the string at(i):
\* i itself unless the string was stored before, which add does when it is called
\* with allowDuplicates
C15_ReverseIndexFirst ==
    \A i \in Stored :
        /\ IndexOfAt(i).ok
        /\ IndexOfAt(i).val = i <=>
              \A j \in Stored : arraySet._array[j + 1] = arraySet._array[i + 1] => i <= j
        /\ arraySet._array[IndexOfAt(i).val + 1] = arraySet._array[i + 1]

\* a string was added a second time with allowDuplicates and is stored twice
C15_Witness ==
    /\ result.op = "add"
    /\ result.aAllowDuplicates
    /\ Len(arraySet._array) = 3
    /\ arraySet._array[1] = arraySet._array[3]
    /\ IndexOfAt(2).val = 0

-----------------------------------------------------------------------------
(* Claims about map discovery (SpecTrace)                                  *)

\* the path the last mapping reference of a generated text names
ReferencedPath(text) == "/g/" \o text.comments[Len(text.comments)].ref

\* a parsed map document no resolver can be constructed from
Unconstructible(doc) ==
    IF "sections" \in DOMAIN doc
    THEN \E i \in DOMAIN doc.sections : "url" \in DOMAIN doc.sections[i]
    ELSE "sources" \notin DOMAIN doc

\* the generated file at p cannot be read, carries no mapping reference, or the map
\* it refers to cannot be read, is not JSON, or is no map
NoMapFor(fs, p) ==
    \/ p \notin DOMAIN fs
    \/ Len(fs[p].comments) = 0
    \/ ReferencedPath(fs[p]) \notin DOMAIN fs
    \/ ~fs[ReferencedPath(fs[p])].valid
    \/ Unconstructible(fs[ReferencedPath(fs[p])].doc)

\* C16: getSourceMap never raises; its result is the cache entry of the path, and when
\* the generated file or its map cannot be read, the map cannot be parsed or
\* constructed, or the text carries no mapping reference, that entry and the result
\* are null
C16_FailureIsNullEntry ==
    [][(files' = files /\ result'.op = "getSourceMap") =>
          /\ result'.ok
          /\ result'.path \in DOMAIN cache'
          /\ cache'[result'.path] = result'.val
          /\ (~result'.hit /\ NoMapFor(files, result'.path)) => result'.val = Null]_vars

\* getSourceMap has just answered null for /g/a.js, whose map file is not JSON
C16_Witness ==
    /\ result.op = "getSourceMap"
    /\ result.path = "/g/a.js"
    /\ ~result.hit
    /\ Len(files["/g/a.js"].comments) > 0
    /\ files["/g/a.js.map"] = BrokenText
    /\ result.val = Null
    /\ cache["/g/a.js"] = Null

-----------------------------------------------------------------------------
(* Claims about eval origins (SpecTrace)                                   *)

\* the override has run on an eval frame without file whose origin text has one of
\* the two eval-origin shapes
RenderedEval ==
    /\ result.op = "render"
    /\ frame \in EvalFrames
    /\ frame.evalOrigin # Undefined
    /\ "fn" \in DOMAIN frame.evalOrigin

\* the origin text names a file, a line and a column
FileOrigin == RenderedEval /\ "file" \in DOMAIN frame.evalOrigin

\* the position the origin text names, 0-based in the column
OriginPosition ==
    [source |-> Str(frame.evalOrigin.file), line |-> Num(frame.evalOrigin.line),
     column |-> Num(frame.evalOrigin.column - 1)]

\* what the resolver of the origin's file answers for it
OriginResolved == OriginalPositionFor(cache[frame.evalOrigin.file], OriginPosition)

\* the location the origin text is to carry: the resolved one when the file has a map
OriginLocation ==
    IF cache[frame.evalOrigin.file] = Null
    THEN frame.evalOrigin.file \o ":" \o ToString(frame.evalOrigin.line)
             \o ":" \o ToString(frame.evalOrigin.column)
    ELSE ToStr(OriginResolved.val.source) \o ":" \o ToStr(OriginResolved.val.line)
             \o ":" \o ToStr(JsAdd(OriginResolved.val.column, Num(1)))

\* C17: getEvalOrigin ends with a reconstructed string for every eval-origin text and
\* never raises: `eval at X (Y:line:col)` carries the resolved location, and
\* `eval at X (Y)` is rebuilt around the reconstruction of Y
C17_EvalOriginReconstructed ==
    /\ RenderedEval => result.ok
    /\ (/\ FileOrigin
        /\ result.ok
        /\ cache[frame.evalOrigin.file] # Null => OriginResolved.ok) =>
          result.val = Trace("eval at " \o frame.evalOrigin.fn \o " (" \o OriginLocation
                                 \o "), <anonymous>:" \o ToStr(frame.lineNumber)
                                 \o ":" \o ToStr(frame.columnNumber))

\* getSourceMap has just loaded the map of /g/a.js, and the map embeds the texts of
\* its sources
LoadedWithContent ==
    /\ result.op = "getSourceMap"
    /\ result.path = "/g/a.js"
    /\ ~result.hit
    /\ result.val # Null
    /\ "sourcesContent" \in DOMAIN files["/g/a.js.map"].doc

\* C18: when getSourceMap loads a map that embeds source contents, the cache then
\* holds an entry for each source path with embedded contents
C18_EmbeddedSourcesCached ==
    LoadedWithContent =>
        \A i \in DOMAIN files["/g/a.js.map"].doc.sources :
            Truthy(files["/g/a.js.map"].doc.sourcesContent[i]) =>
                PathResolve(PathDirname("/g/a.js.map"), files["/g/a.js.map"].doc.sources[i])
                    \in DOMAIN cache

\* the resolver r was constructed from the parsed map document doc
ConstructedFrom(r, doc) ==
    /\ r # Null
    /\ IF "sections" \in DOMAIN doc
       THEN r.kind = "indexed"
       ELSE r.kind = "basic" /\ r._mappings = doc.mappings

\* C19: getSourceMap uses the last mapping-reference comment of the text and loads
\* the map it names, for the single-line form and the block form alike
C19_LastReferenceEitherForm ==
    [][(/\ files' = files
        /\ result'.op = "getSourceMap"
        /\ ~result'.hit
        /\ ~NoMapFor(files, result'.path)) =>
          ConstructedFrom(result'.val, files[ReferencedPath(files[result'.path])].doc)]_vars


====
